---- MODULE Spec2Model ----
(***************************************************************************)
(* Model of backend/automation/yelp_signup_bot.py: the command line entry  *)
(* point main(), the run orchestrator YelpSignupBot.run_signup and the     *)
(* helpers it calls (generate_random_user_data, detect_form_type,          *)
(* fill_field, fill_birthday, close).                                      *)
(*                                                                         *)
(* Text values are sequences of one-character strings so that formatting   *)
(* (str, zfill, f-strings) and parsing (split) are computed, not assumed.  *)
(* The browser engine is an external collaborator: a page is the set of    *)
(* selectors that resolve to an element, a wait on an absent selector      *)
(* times out, and an interaction with a present element may still fail.    *)
(* A KeyboardInterrupt is delivered only while the program sits in its     *)
(* review wait, the one place where the code handles it.                   *)
(***************************************************************************)
EXTENDS Integers, Sequences, FiniteSets, TLC

\* ------------------------------------------------------------------------
\* Selectors (module constants of the bot)
\* ------------------------------------------------------------------------
XPATH_FIRST_NAME_MODAL == "//form//input[@type='text' and @placeholder='First Name']"
XPATH_LAST_NAME_MODAL == "//form//input[@type='text' and @placeholder='Last Name']"
XPATH_EMAIL_MODAL == "//form//input[@type='email' and @placeholder='Email']"
XPATH_PASSWORD_MODAL == "//form//input[@type='password' and @placeholder='Password']"
XPATH_ZIP_MODAL == "//form//input[@name='zip' and @placeholder='ZIP Code']"
XPATH_SIGNUP_BTN_MODAL == "//form//button[.//span[normalize-space()='Sign up'] or normalize-space()='Sign up']"

CSS_FIRST_NAME_DIRECT == "#first_name"
CSS_LAST_NAME_DIRECT == "#last_name"
CSS_EMAIL_DIRECT == "#email"
CSS_PASSWORD_DIRECT == "#password"
CSS_ZIP_DIRECT == "#zip"
CSS_SIGNUP_DIRECT == "#signup-button"

CSS_MONTH_SELECT == "select[name='birthday_month']"
CSS_DAY_SELECT == "select[name='birthday_day']"
CSS_YEAR_SELECT == "select[name='birthday_year']"

DirectSelectors ==
  {CSS_FIRST_NAME_DIRECT, CSS_LAST_NAME_DIRECT, CSS_EMAIL_DIRECT,
   CSS_PASSWORD_DIRECT, CSS_ZIP_DIRECT}

ModalSelectors ==
  {XPATH_FIRST_NAME_MODAL, XPATH_LAST_NAME_MODAL, XPATH_EMAIL_MODAL,
   XPATH_PASSWORD_MODAL, XPATH_ZIP_MODAL}

BirthdaySelectors == {CSS_MONTH_SELECT, CSS_DAY_SELECT, CSS_YEAR_SELECT}

SubmitSelectors == {CSS_SIGNUP_DIRECT, XPATH_SIGNUP_BTN_MODAL}

FieldSelectors == DirectSelectors \cup ModalSelectors \cup BirthdaySelectors

\* ------------------------------------------------------------------------
\* Bounds of the model
\* ------------------------------------------------------------------------
\* a page misses at most this many of the field selectors
MaxMissing == 2
\* at most this many interactions with a present element fail in one run
MaxFaults == 1
\* iterations of the review wait that are told apart
MaxTicks == 2
\* the current date ranges over NumYears years starting at FirstYear
FirstYear == 2025
NumYears == 1

\* ------------------------------------------------------------------------
\* Text: str(), str.zfill(), str.lower(), str.split(), concatenation
\* ------------------------------------------------------------------------
DigitChars == <<"0", "1", "2", "3", "4", "5", "6", "7", "8", "9">>

RECURSIVE Str(_)
\* str(n) for a non-negative int
Str(n) == IF n < 10 THEN <<DigitChars[n + 1]>>
          ELSE Str(n \div 10) \o <<DigitChars[(n % 10) + 1]>>

RECURSIVE zfill(_, _)
\* s.zfill(width) for a string without a sign
zfill(s, width) == IF Len(s) >= width THEN s ELSE zfill(<<"0">> \o s, width)

UpperChars == <<"A", "B", "C", "D", "E", "F", "G", "H", "I", "J", "K", "L", "M",
                "N", "O", "P", "Q", "R", "S", "T", "U", "V", "W", "X", "Y", "Z">>
LowerChars == <<"a", "b", "c", "d", "e", "f", "g", "h", "i", "j", "k", "l", "m",
                "n", "o", "p", "q", "r", "s", "t", "u", "v", "w", "x", "y", "z">>

lowerChar(c) ==
  IF \E i \in 1..Len(UpperChars) : UpperChars[i] = c
  THEN LowerChars[CHOOSE i \in 1..Len(UpperChars) : UpperChars[i] = c]
  ELSE c

\* s.lower()
lower(s) == [i \in 1..Len(s) |-> lowerChar(s[i])]

RECURSIVE splitFrom(_, _, _, _)
splitFrom(s, sep, i, cur) ==
  IF i > Len(s) THEN <<cur>>
  ELSE IF s[i] = sep THEN <<cur>> \o splitFrom(s, sep, i + 1, <<>>)
  ELSE splitFrom(s, sep, i + 1, Append(cur, s[i]))

\* s.split(sep) for a one-character separator
split(s, sep) == splitFrom(s, sep, 1, <<>>)

\* ------------------------------------------------------------------------
\* generate_random_user_data
\* ------------------------------------------------------------------------
MinAgeDraw == 18
MaxAgeDraw == 65
MaxMonthDraw == 12
MaxDayDraw == 28

\* the four word lists as load_data_file returns them
WordLists ==
  [names |-> << <<"A", "n", "a">> >>,
   lastname |-> << <<"R", "u", "i", "z">> >>,
   mailproviders |-> << <<"x", ".", "c", "o", "m">> >>,
   uszip |-> << <<"1", "0", "0", "0", "1">> >>]

\* the same lists with an empty providers file
WordListsEmpty == [WordLists EXCEPT !.mailproviders = <<>>]

\* random.choice(seq) with the draw d raises IndexError on an empty list
ChoiceFails(list) == Len(list) = 0

GenerateFails(lists) ==
  \/ ChoiceFails(lists.names)
  \/ ChoiceFails(lists.lastname)
  \/ ChoiceFails(lists.mailproviders)
  \/ ChoiceFails(lists.uszip)

birth_day_mut(d) == Str(d.day)

\* birth_day = str(random.randint(1, 28)).zfill(2)
birth_day(d) == zfill(Str(d.day), 2)

birth_year_mut(now, d) == now.year - d.age + 1

\* birth_year = current_year - random.randint(18, 65)
birth_year(now, d) == now.year - d.age

\* the record generate_random_user_data returns; d holds the random draws
generate_random_user_data(now, lists, d) ==
  LET first_name == lists.names[d.first]
      last_name == lists.lastname[d.last]
      mail_provider == lists.mailproviders[d.provider]
      zip_code == lists.uszip[d.zip]
      email == lower(first_name) \o <<".">> \o lower(last_name)
                 \o Str(d.emailn) \o <<"@">> \o mail_provider
      password == <<"P", "a", "s", "s">> \o Str(d.passn) \o <<"!">>
      birth_month == zfill(Str(d.month), 2)
      birthday == birth_month \o <<"/">> \o birth_day(d) \o <<"/">>
                    \o Str(birth_year(now, d))
  IN [firstName |-> first_name,
      lastName |-> last_name,
      email |-> email,
      password |-> password,
      zipCode |-> zip_code,
      birthday |-> birthday]

\* every outcome of the random draws for the given lists, birthday draws
\* taken from the given sets
DrawsOver(lists, ages, months, days) ==
  [first : 1..Len(lists.names), last : 1..Len(lists.lastname),
   provider : 1..Len(lists.mailproviders), zip : 1..Len(lists.uszip),
   emailn : {100}, passn : {1000},
   age : ages, month : months, day : days]

AllDraws(lists) ==
  DrawsOver(lists, MinAgeDraw..MaxAgeDraw, 1..MaxMonthDraw, 1..MaxDayDraw)

SampleDraws(lists) == DrawsOver(lists, {MinAgeDraw}, {MaxMonthDraw}, {MaxDayDraw})

NoDraw == [first |-> 0, last |-> 0, provider |-> 0, zip |-> 0,
           emailn |-> 0, passn |-> 0, age |-> 0, month |-> 0, day |-> 0]

\* current dates the model considers
MonthDays == {<<1, 1>>, <<6, 15>>, <<12, 31>>}

Todays ==
  {[year |-> y, month |-> md[1], day |-> md[2]] :
     y \in FirstYear..(FirstYear + NumYears - 1), md \in MonthDays}

SampleToday == [year |-> FirstYear, month |-> 6, day |-> 15]

\* ------------------------------------------------------------------------
\* Command line payloads (--data) and json.loads
\* ------------------------------------------------------------------------
Chars_Ana == <<"A", "n", "a">>
Chars_Ruiz == <<"R", "u", "i", "z">>
Chars_Email == <<"a", "n", "a", "@", "x", ".", "c", "o", "m">>
Chars_Password == <<"P", "w", "1", "2", "!">>
Chars_Zip == <<"1", "0", "0", "0", "1">>
Chars_Birthday == <<"0", "5", "/", "1", "0", "/", "1", "9", "9", "0">>
Chars_IsoBirthday == <<"1", "9", "9", "0", "-", "0", "5", "-", "1", "0">>

ExampleUser ==
  [firstName |-> Chars_Ana, lastName |-> Chars_Ruiz, email |-> Chars_Email,
   password |-> Chars_Password, zipCode |-> Chars_Zip, birthday |-> Chars_Birthday]

\* what --data can hold: nothing, text that is not JSON, a JSON array, an
\* object without the expected keys, a full object, a full object whose
\* birthday does not have the MM/DD/YYYY form
Payloads ==
  << [kind |-> "absent", value |-> [type |-> "none", val |-> <<>>]],
     [kind |-> "malformed", value |-> [type |-> "none", val |-> <<>>]],
     [kind |-> "json", value |-> [type |-> "array", val |-> <<1, 2>>]],
     [kind |-> "json", value |-> [type |-> "object", val |-> [firstName |-> Chars_Ana]]],
     [kind |-> "json", value |-> [type |-> "object", val |-> ExampleUser]],
     [kind |-> "json", value |-> [type |-> "object",
                                  val |-> [ExampleUser EXCEPT !.birthday = Chars_IsoBirthday]]] >>

NoUserData == [type |-> "none", val |-> <<>>]

\* `not args.data`
DataMissing(d) == d.kind = "absent"

\* json.loads(args.data) raises JSONDecodeError
LoadsFails(d) == d.kind = "malformed"

\* json.loads(args.data)
loads(d) == d.value

UserKeys == <<"firstName", "lastName", "email", "password", "zipCode", "birthday">>

\* user_data[k] raises (KeyError on a dict without k, TypeError otherwise)
SubscriptFails(ud, k) == ud.type # "object" \/ k \notin DOMAIN ud.val

SubscriptError(ud) == IF ud.type = "object" THEN "KeyError" ELSE "TypeError"

\* ------------------------------------------------------------------------
\* Result objects
\* ------------------------------------------------------------------------
\* {**user_data, 'init_time': init_time * 1000, 'last_time': last_time * 1000}
ResultData(ud, t0, t1) ==
  [k \in (DOMAIN ud.val) \cup {"init_time", "last_time"} |->
     IF k = "init_time" THEN t0 * 1000
     ELSE IF k = "last_time" THEN t1 * 1000
     ELSE ud.val[k]]

SuccessResult(ud, t0, t1) == [success |-> TRUE, data |-> ResultData(ud, t0, t1)]

ErrorResult_mut(ud, err, t0, t1) == [success |-> FALSE, error |-> err]

\* the dict the except clause of run_signup returns
ErrorResult(ud, err, t0, t1) ==
  [success |-> FALSE, error |-> err, data |-> ResultData(ud, t0, t1)]

\* `**user_data` raises TypeError when user_data is not a mapping
UnpackFails(ud) == ud.type # "object"

\* the object main prints when it has no run result
MainError(err) == [success |-> FALSE, error |-> err]

ExitCode_mut(r) == 0

\* sys.exit(0 if result['success'] else 1)
ExitCode(r) == IF r.success THEN 0 ELSE 1

Text(s) == [kind |-> "text", text |-> s]
Json(r) == [kind |-> "json", obj |-> r]

ERR_MANUAL == "Manual mode requires --data argument with user data"
ERR_UNKNOWN_FORM == "Unknown form type - could not detect form fields"

\* ------------------------------------------------------------------------
\* Browser engine
\* ------------------------------------------------------------------------
\* the pages driver.get can load: all selectors present but at most
\* MaxMissing of the field selectors
Pages ==
  {(FieldSelectors \ m) \cup SubmitSelectors :
     m \in {x \in SUBSET FieldSelectors : Cardinality(x) <= MaxMissing}}

NoPage == {}

detect_form_type_modal_first(p) ==
  IF XPATH_FIRST_NAME_MODAL \in p THEN "MODAL"
  ELSE IF CSS_FIRST_NAME_DIRECT \in p THEN "DIRECT"
  ELSE "UNKNOWN"

\* detect_form_type on page p
detect_form_type(p) ==
  IF CSS_FIRST_NAME_DIRECT \in p THEN "DIRECT"
  ELSE IF XPATH_FIRST_NAME_MODAL \in p THEN "MODAL"
  ELSE "UNKNOWN"

DispatchRaises_mut(ft) == FALSE

\* the else branch of the dispatch on form_type raises
DispatchRaises(ft) == ft \notin {"DIRECT", "MODAL"}

FieldCall(by, locator, key, name) ==
  [call |-> "fill_field", by |-> by, locator |-> locator, key |-> key, name |-> name]

BirthdayCall ==
  [call |-> "fill_birthday", by |-> "css", locator |-> "", key |-> "birthday",
   name |-> "Birthday"]

ClickCall(by, locator) ==
  [call |-> "click", by |-> by, locator |-> locator, key |-> "", name |-> "Sign up"]

DirectCalls ==
  << FieldCall("css", CSS_FIRST_NAME_DIRECT, "firstName", "First Name"),
     FieldCall("css", CSS_LAST_NAME_DIRECT, "lastName", "Last Name"),
     FieldCall("css", CSS_EMAIL_DIRECT, "email", "Email"),
     FieldCall("css", CSS_PASSWORD_DIRECT, "password", "Password"),
     FieldCall("css", CSS_ZIP_DIRECT, "zipCode", "ZIP Code"),
     BirthdayCall >>

ModalCalls_direct_email ==
  << FieldCall("xpath", XPATH_FIRST_NAME_MODAL, "firstName", "First Name"),
     FieldCall("xpath", XPATH_LAST_NAME_MODAL, "lastName", "Last Name"),
     FieldCall("css", CSS_EMAIL_DIRECT, "email", "Email"),
     FieldCall("xpath", XPATH_PASSWORD_MODAL, "password", "Password"),
     FieldCall("xpath", XPATH_ZIP_MODAL, "zipCode", "ZIP Code"),
     BirthdayCall >>

ModalCalls ==
  << FieldCall("xpath", XPATH_FIRST_NAME_MODAL, "firstName", "First Name"),
     FieldCall("xpath", XPATH_LAST_NAME_MODAL, "lastName", "Last Name"),
     FieldCall("xpath", XPATH_EMAIL_MODAL, "email", "Email"),
     FieldCall("xpath", XPATH_PASSWORD_MODAL, "password", "Password"),
     FieldCall("xpath", XPATH_ZIP_MODAL, "zipCode", "ZIP Code"),
     BirthdayCall >>

FormCalls_with_submit(ft) ==
  IF ft = "DIRECT" THEN Append(DirectCalls, ClickCall("css", CSS_SIGNUP_DIRECT))
  ELSE IF ft = "MODAL" THEN Append(ModalCalls, ClickCall("xpath", XPATH_SIGNUP_BTN_MODAL))
  ELSE <<>>

\* the calls run_signup makes on the engine for a detected form type, in order
FormCalls(ft) ==
  IF ft = "DIRECT" THEN DirectCalls
  ELSE IF ft = "MODAL" THEN ModalCalls
  ELSE <<>>

fill_field_timeout_escapes(found, fault) ==
  IF found /\ ~fault THEN "True" ELSE IF ~found THEN "raise" ELSE "False"

\* fill_field: True when the element is found and the interaction succeeds,
\* False on any exception
fill_field(found, fault) == IF found /\ ~fault THEN "True" ELSE "False"

BirthdaySelects == <<CSS_MONTH_SELECT, CSS_DAY_SELECT, CSS_YEAR_SELECT>>

\* `month, day, year = birthday.split('/')` raises unless there are three parts
UnpackBirthdayFails(birthday) == Len(split(birthday, "/")) # 3

\* fill_birthday on page p: the number of dropdowns selected before the first
\* failure (3 when all succeed); faultAt = k > 0 makes the k-th selection fail
BirthdaySelected(p, birthday, faultAt) ==
  IF UnpackBirthdayFails(birthday) THEN 0
  ELSE LET bad == {i \in 1..3 : BirthdaySelects[i] \notin p \/ i = faultAt}
       IN IF bad = {} THEN 3 ELSE (CHOOSE i \in bad : \A j \in bad : i <= j) - 1

run_finally_mut(h, d) == d

\* finally clause of run_signup: if self.headless and self.driver: quit()
run_finally(h, d) == IF h /\ d = "open" THEN "closed" ELSE d

\* bot.close(): if self.driver: self.driver.quit()
close(d) == IF d = "open" THEN "closed" ELSE d

\* finally clause of main: if args.headless: bot.close()
main_finally(h, d) == IF h THEN close(d) ELSE d

KeepOpen_always(h) == TRUE

KeepOpen_never(h) == FALSE

\* `if not self.headless:` guarding the review wait
KeepOpen(h) == ~h

\* ------------------------------------------------------------------------
\* State
\* ------------------------------------------------------------------------
VARIABLES
  mode,        \* args.mode
  data,        \* args.data
  headless,    \* args.headless
  wordlists,   \* contents of the word list files
  today,       \* the current date
  rand,        \* the draws the random module will return
  pc,          \* position of the process
  user_data,   \* user_data of main and run_signup
  driver,      \* bot.driver: "none", "open", "closed"
  page,        \* selectors that resolve on the loaded page
  form_type,   \* form_type of run_signup
  detections,  \* calls of detect_form_type made so far
  step,        \* index of the next engine call of the chosen form
  faults,      \* interactions that failed on a present element
  fills,       \* the fill calls made, in order, with their outcome
  submitted,   \* the page's form was submitted
  init_time,   \* init_time of run_signup
  last_time,   \* last_time of run_signup
  clock,       \* time.time()
  ticks,       \* iterations of the review wait
  interrupted, \* a KeyboardInterrupt was delivered
  result,      \* <<r>> when run_signup returned r
  exc,         \* the exception propagating into main's except clause
  output,      \* what was printed
  exit_code    \* the process exit status, -1 while running

args == <<mode, data, headless, wordlists, today, rand>>

vars == <<mode, data, headless, wordlists, today, rand, pc, user_data, driver,
          page, form_type, detections, step, faults, fills, submitted, init_time, last_time,
          clock, ticks, interrupted, result, exc, output, exit_code>>

InitRest ==
  /\ pc = "main"
  /\ user_data = NoUserData
  /\ driver = "none"
  /\ page = NoPage
  /\ form_type = "none"
  /\ detections = 0
  /\ step = 0
  /\ faults = 0
  /\ fills = <<>>
  /\ submitted = FALSE
  /\ init_time = 0
  /\ last_time = 0
  /\ clock = 1
  /\ ticks = 0
  /\ interrupted = FALSE
  /\ result = <<>>
  /\ exc = ""
  /\ output = <<>>
  /\ exit_code = -1

Init ==
  /\ mode \in {"automatic", "manual"}
  /\ headless \in BOOLEAN
  /\ today = SampleToday
  /\ IF mode = "automatic"
     THEN /\ data = Payloads[1]
          /\ wordlists \in {WordLists, WordListsEmpty}
          /\ IF GenerateFails(wordlists) THEN rand = NoDraw
             ELSE rand \in SampleDraws(wordlists)
     ELSE /\ \E i \in 1..Len(Payloads) : data = Payloads[i]
          /\ wordlists = WordLists
          /\ rand = NoDraw
  /\ InitRest

\* ------------------------------------------------------------------------
\* run_signup: leaving the function
\* ------------------------------------------------------------------------
\* `return {...}` from the try block with driver state drv, through finally
Return(res, drv) ==
  /\ result' = <<res>>
  /\ exc' = ""
  /\ driver' = run_finally(headless, drv)
  /\ pc' = "main_result"

\* an exception err raised inside the try block of run_signup started at t0,
\* with driver state drv and out printed so far: the except clause builds the
\* failure result (and itself raises when user_data cannot be unpacked), then
\* finally runs
Raise(err, drv, t0, out) ==
  /\ last_time' = clock
  /\ output' = out \o <<Text("=== Error during signup ==="), Text(err)>>
  /\ driver' = run_finally(headless, drv)
  /\ IF UnpackFails(user_data)
     THEN /\ result' = <<>>
          /\ exc' = "TypeError"
          /\ pc' = "main_except"
     ELSE /\ result' = <<ErrorResult(user_data, err, t0, clock)>>
          /\ exc' = ""
          /\ pc' = "main_result"

\* ------------------------------------------------------------------------
\* Actions
\* ------------------------------------------------------------------------
\* main: obtain user_data (generated, or parsed from --data)
main_user_data ==
  /\ pc = "main"
  /\ clock' = clock + 1
  /\ IF mode = "automatic"
     THEN IF GenerateFails(wordlists)
          THEN /\ exc' = "IndexError"
               /\ pc' = "main_except"
               /\ UNCHANGED <<user_data, output, exit_code>>
          ELSE /\ user_data' = [type |-> "object",
                                val |-> generate_random_user_data(today, wordlists, rand)]
               /\ pc' = "run_signup"
               /\ UNCHANGED <<exc, output, exit_code>>
     ELSE IF DataMissing(data)
          THEN /\ output' = Append(output, Json(MainError(ERR_MANUAL)))
               /\ exit_code' = 1
               /\ pc' = "exited"
               /\ UNCHANGED <<user_data, exc>>
          ELSE IF LoadsFails(data)
               THEN /\ exc' = "JSONDecodeError"
                    /\ pc' = "main_except"
                    /\ UNCHANGED <<user_data, output, exit_code>>
               ELSE /\ user_data' = loads(data)
                    /\ pc' = "run_signup"
                    /\ UNCHANGED <<exc, output, exit_code>>
  /\ driver' = IF pc' = "exited" THEN main_finally(headless, driver) ELSE driver
  /\ UNCHANGED <<args, page, form_type, detections, step, faults, fills, submitted, init_time,
                 last_time, ticks, interrupted, result>>

\* run_signup: init_time = time.time(); self.initialize_driver()
initialize_driver ==
  /\ pc = "run_signup"
  /\ clock' = clock + 1
  /\ init_time' = clock
  /\ \E outcome \in {"ok", "no_session", "session_then_error"} :
       IF outcome = "ok"
       THEN /\ driver' = "open"
            /\ pc' = "print_user_data"
            /\ UNCHANGED <<result, exc, last_time, output>>
       ELSE Raise("WebDriverException",
                  IF outcome = "no_session" THEN driver ELSE "open", clock, output)
  /\ UNCHANGED <<args, user_data, page, form_type, detections, step, faults, fills, submitted,
                 ticks, interrupted, exit_code>>

\* run_signup: the six print(user_data[...]) lines
print_user_data ==
  /\ pc = "print_user_data"
  /\ clock' = clock + 1
  /\ LET out == Append(output, Text("=== Starting Yelp Signup ==="))
     IN IF \E i \in 1..Len(UserKeys) : SubscriptFails(user_data, UserKeys[i])
        THEN Raise(SubscriptError(user_data), driver, init_time, out)
        ELSE /\ pc' = "navigate"
             /\ output' = out
             /\ UNCHANGED <<result, exc, last_time, driver>>
  /\ UNCHANGED <<args, user_data, page, form_type, detections, step, faults, fills, submitted,
                 init_time, ticks, interrupted, exit_code>>

\* run_signup: self.driver.get(url)
navigate ==
  /\ pc = "navigate"
  /\ clock' = clock + 1
  /\ \E loaded \in BOOLEAN :
       IF loaded
       THEN /\ page' \in Pages
            /\ pc' = "detect"
            /\ UNCHANGED <<result, exc, last_time, driver, output>>
       ELSE /\ Raise("WebDriverException", driver, init_time, output)
            /\ page' = page
  /\ UNCHANGED <<args, user_data, form_type, detections, step, faults, fills, submitted,
                 init_time, ticks, interrupted, exit_code>>

\* run_signup: form_type = self.detect_form_type() and the dispatch on it
detect ==
  /\ pc = "detect"
  /\ clock' = clock + 1
  /\ detections' = detections + 1
  /\ \E crashed \in BOOLEAN :
       IF crashed
       THEN /\ Raise("WebDriverException", driver, init_time, output)
            /\ UNCHANGED <<form_type, step>>
       ELSE /\ form_type' = detect_form_type(page)
            /\ LET out == Append(output, Text("Form type detected"))
               IN IF DispatchRaises(form_type')
                  THEN /\ Raise(ERR_UNKNOWN_FORM, driver, init_time, out)
                       /\ step' = step
                  ELSE /\ pc' = "fill"
                       /\ step' = 1
                       /\ output' = out
                       /\ UNCHANGED <<result, exc, last_time, driver>>
  /\ UNCHANGED <<args, user_data, page, faults, fills, submitted, init_time,
                 ticks, interrupted, exit_code>>

\* run_signup: one self.fill_field(...) call of the chosen branch (any other
\* element call of the branch is carried out by the engine as written)
fill_field_call ==
  /\ pc = "fill"
  /\ step <= Len(FormCalls(form_type))
  /\ FormCalls(form_type)[step].call # "fill_birthday"
  /\ clock' = clock + 1
  /\ LET c == FormCalls(form_type)[step]
         found == c.locator \in page
     IN IF c.call = "click"
        THEN /\ submitted' = (submitted \/ (found /\ c.locator \in SubmitSelectors))
             /\ step' = step + 1
             /\ UNCHANGED <<fills, faults, pc, result, exc, last_time, driver, output>>
        ELSE \E fault \in BOOLEAN :
               /\ fault => (found /\ faults < MaxFaults)
               /\ LET r == fill_field(found, fault)
                  IN IF r = "raise"
                     THEN /\ Raise("TimeoutException", driver, init_time, output)
                          /\ UNCHANGED <<fills, faults, step, submitted>>
                     ELSE /\ fills' = Append(fills,
                                [name |-> c.name, by |-> c.by, locators |-> <<c.locator>>,
                                 values |-> IF r = "True" THEN <<user_data.val[c.key]>>
                                            ELSE <<>>,
                                 ok |-> (r = "True")])
                          /\ faults' = IF fault THEN faults + 1 ELSE faults
                          /\ step' = step + 1
                          /\ UNCHANGED <<submitted, pc, result, exc, last_time, driver,
                                         output>>
  /\ UNCHANGED <<args, user_data, page, form_type, detections, init_time, ticks, interrupted,
                 exit_code>>

\* run_signup: self.fill_birthday(user_data['birthday'])
fill_birthday_call ==
  /\ pc = "fill"
  /\ step <= Len(FormCalls(form_type))
  /\ FormCalls(form_type)[step].call = "fill_birthday"
  /\ clock' = clock + 1
  /\ LET birthday == user_data.val["birthday"]
         parts == split(birthday, "/")
     IN \E faultAt \in 0..3 :
          /\ faultAt > 0 => /\ faults < MaxFaults
                            /\ ~UnpackBirthdayFails(birthday)
                            /\ \A i \in 1..faultAt : BirthdaySelects[i] \in page
          /\ LET n == BirthdaySelected(page, birthday, faultAt)
                 waited == IF UnpackBirthdayFails(birthday) THEN 0
                           ELSE IF n < 3 THEN n + 1 ELSE 3
             IN fills' = Append(fills,
                   [name |-> "Birthday", by |-> "css",
                    locators |-> SubSeq(BirthdaySelects, 1, waited),
                    values |-> SubSeq(parts, 1, n),
                    ok |-> (n = 3)])
          /\ faults' = IF faultAt > 0 THEN faults + 1 ELSE faults
  /\ step' = step + 1
  /\ UNCHANGED <<args, user_data, page, form_type, detections, submitted, init_time, ticks,
                 interrupted, exit_code, pc, result, exc, last_time, driver, output>>

\* run_signup: after the branch, last_time = time.time(), then either the
\* review wait or the successful return
fields_filled ==
  /\ pc = "fill"
  /\ step > Len(FormCalls(form_type))
  /\ clock' = clock + 1
  /\ last_time' = clock
  /\ LET out == output \o <<Text("=== All fields filled successfully! ==="),
                            Text("Note: Submit button NOT clicked - manual review required")>>
     IN IF KeepOpen(headless)
        THEN /\ pc' = "review"
             /\ output' = Append(out, Text("Browser will remain open for manual review."))
             /\ UNCHANGED <<result, exc, driver>>
        ELSE /\ Return(SuccessResult(user_data, init_time, clock), driver)
             /\ output' = out
  /\ UNCHANGED <<args, user_data, page, form_type, detections, step, faults, fills, submitted,
                 init_time, ticks, interrupted, exit_code>>

\* run_signup: one iteration of `while True: time.sleep(1)`
review_sleep ==
  /\ pc = "review"
  /\ ticks < MaxTicks
  /\ ticks' = ticks + 1
  /\ clock' = clock + 1
  /\ UNCHANGED <<args, user_data, page, form_type, detections, step, faults, fills, submitted,
                 init_time, last_time, interrupted, exit_code, pc, result, exc,
                 driver, output>>

\* run_signup: KeyboardInterrupt during the review wait, caught, then the
\* successful return
keyboard_interrupt ==
  /\ pc = "review"
  /\ interrupted' = TRUE
  /\ clock' = clock + 1
  /\ output' = Append(output, Text("Closing browser..."))
  /\ Return(SuccessResult(user_data, init_time, last_time), driver)
  /\ UNCHANGED <<args, user_data, page, form_type, detections, step, faults, fills, submitted,
                 init_time, last_time, ticks, exit_code>>

\* main: print the result of run_signup, sys.exit, finally
main_result ==
  /\ pc = "main_result"
  /\ clock' = clock + 1
  /\ output' = output \o <<Text("=== RESULT ==="), Json(result[1])>>
  /\ exit_code' = ExitCode(result[1])
  /\ driver' = main_finally(headless, driver)
  /\ pc' = "exited"
  /\ UNCHANGED <<args, user_data, page, form_type, detections, step, faults, fills, submitted,
                 init_time, last_time, ticks, interrupted, result, exc>>

\* main: except Exception: print the error object, sys.exit(1), finally
main_except ==
  /\ pc = "main_except"
  /\ clock' = clock + 1
  /\ output' = Append(output, Json(MainError(exc)))
  /\ exit_code' = 1
  /\ driver' = main_finally(headless, driver)
  /\ pc' = "exited"
  /\ UNCHANGED <<args, user_data, page, form_type, detections, step, faults, fills, submitted,
                 init_time, last_time, ticks, interrupted, result, exc>>

\* the steps of the program itself
ProgramNext ==
  \/ main_user_data
  \/ initialize_driver
  \/ print_user_data
  \/ navigate
  \/ detect
  \/ fill_field_call
  \/ fill_birthday_call
  \/ fields_filled
  \/ review_sleep
  \/ main_result
  \/ main_except

Next == ProgramNext \/ keyboard_interrupt

Spec == Init /\ [][Next]_vars

\* every step of the program returns or raises: the engine's waits are bounded
\* by the timeout and time.sleep returns
FairSpec == Spec /\ WF_vars(ProgramNext)

\* ------------------------------------------------------------------------
\* generate_random_user_data on its own, over every draw
\* ------------------------------------------------------------------------
GenInit ==
  /\ mode = "automatic"
  /\ headless = TRUE
  /\ data = Payloads[1]
  /\ wordlists = WordLists
  /\ today \in Todays
  /\ rand \in AllDraws(wordlists)
  /\ InitRest

\* user_data = bot.generate_random_user_data()
generate ==
  /\ pc = "main"
  /\ ~GenerateFails(wordlists)
  /\ user_data' = [type |-> "object",
                   val |-> generate_random_user_data(today, wordlists, rand)]
  /\ pc' = "generated"
  /\ UNCHANGED <<args, driver, page, form_type, detections, step, faults, fills, submitted,
                 init_time, last_time, clock, ticks, interrupted, result, exc,
                 output, exit_code>>

GenNext == generate

GenSpec == GenInit /\ [][GenNext]_vars

\* ------------------------------------------------------------------------
\* Properties
\* ------------------------------------------------------------------------
Returned == {"main_result", "main_except", "exited"}

Recognized == form_type \in {"DIRECT", "MODAL"}

RunStarted == init_time > 0

\* an exception left run_signup and reached main's except clause
Escaped == exc # "" /\ RunStarted

JsonEntries == {i \in 1..Len(output) : output[i].kind = "json"}

FinalObject == output[Len(output)].obj

\* C1: prepare, never submit. In every state of every run the page's form has
\* not been submitted, and no call the run made on the engine addressed a
\* sign-up control.
C1_NeverSubmits ==
  /\ submitted = FALSE
  /\ \A i \in 1..Len(fills) : \A j \in 1..Len(fills[i].locators) :
        fills[i].locators[j] \notin SubmitSelectors
  /\ Recognized =>
        \A i \in 1..Len(FormCalls(form_type)) :
          /\ FormCalls(form_type)[i].call \in {"fill_field", "fill_birthday"}
          /\ FormCalls(form_type)[i].locator \notin SubmitSelectors

\* a run that filled every field of a page carrying its sign-up control and
\* ended without submitting
C1_Witness ==
  /\ pc = "exited"
  /\ Recognized
  /\ Len(fills) = 6
  /\ \A i \in 1..6 : fills[i].ok
  /\ SubmitSelectors \subseteq page
  /\ ~submitted

NeitherMarker == CSS_FIRST_NAME_DIRECT \notin page /\ XPATH_FIRST_NAME_MODAL \notin page

\* C2: once detection has run on a page exposing neither marker, the run has
\* returned a result with success false and the Unknown form type error, and
\* no fill was attempted at any point of the run.
C2_UnknownLayoutFails ==
  (form_type # "none" /\ NeitherMarker) =>
    /\ pc \in {"main_result", "exited"}
    /\ Len(result) = 1
    /\ result[1].success = FALSE
    /\ result[1].error = ERR_UNKNOWN_FORM
    /\ fills = <<>>
    /\ step = 0

\* a finished run on a page with neither marker
C2_Witness ==
  /\ pc = "exited"
  /\ form_type = "UNKNOWN"
  /\ NeitherMarker
  /\ exit_code = 1

\* C8: detection is an ordered first match: Direct exactly when the Direct
\* marker is present (whatever the Modal marker), Modal exactly when the
\* Direct marker is absent and the Modal marker present, Unknown exactly when
\* both are absent.
C8_OrderedFirstMatch ==
  form_type # "none" =>
    /\ form_type \in {"DIRECT", "MODAL", "UNKNOWN"}
    /\ (form_type = "DIRECT") <=> (CSS_FIRST_NAME_DIRECT \in page)
    /\ (form_type = "MODAL") <=>
         (CSS_FIRST_NAME_DIRECT \notin page /\ XPATH_FIRST_NAME_MODAL \in page)
    /\ (form_type = "UNKNOWN") <=> NeitherMarker

\* a page carrying both markers was classified Direct
C8_Witness ==
  /\ form_type = "DIRECT"
  /\ CSS_FIRST_NAME_DIRECT \in page
  /\ XPATH_FIRST_NAME_MODAL \in page

\* C3: a headless run always terminates, and when it has terminated the
\* browser session it created is closed, whatever the outcome.
C3_HeadlessTerminatesClosed == headless ~> (pc = "exited" /\ driver # "open")

\* a headless run that failed after its session was created has exited with
\* the session closed
C3_Witness ==
  /\ headless
  /\ pc = "exited"
  /\ driver = "closed"
  /\ Len(result) = 1
  /\ result[1].success = FALSE

WellFormed(r, ud) ==
  /\ "success" \in DOMAIN r
  /\ "data" \in DOMAIN r
  /\ {"init_time", "last_time"} \subseteq DOMAIN r.data
  /\ ud.type = "object"
  /\ \A k \in DOMAIN ud.val : k \in DOMAIN r.data /\ r.data[k] = ud.val[k]

\* C5 as stated: whatever the outcome, the result object produced has the
\* success flag, the echoed user data and both timestamps, and no exception
\* leaves run_signup.
C5_AlwaysWellFormed ==
  pc = "exited" => (~Escaped /\ WellFormed(FinalObject, user_data))

\* C5 amended: every result run_signup returns has the success flag, the
\* echoed user data and both timestamps with last_time >= init_time; an
\* exception leaves run_signup exactly when a failure occurs with a user_data
\* that is not a mapping; and whenever run_signup returned no result (no data,
\* malformed data, generation failure, non-mapping data) the object main
\* prints has only success = false and error.
C5_ResultShapes ==
  /\ Len(result) = 1 =>
       /\ WellFormed(result[1], user_data)
       /\ result[1].data["last_time"] >= result[1].data["init_time"]
       /\ ~result[1].success => "error" \in DOMAIN result[1]
  /\ Escaped <=> (RunStarted /\ pc \in Returned /\ user_data.type # "object")
  /\ Escaped => result = <<>>
  /\ pc = "exited" =>
       IF Len(result) = 1
       THEN FinalObject = result[1]
       ELSE DOMAIN FinalObject = {"success", "error"} /\ FinalObject.success = FALSE

\* a run that failed on an engine error has exited after printing a result
\* with its data and timestamps
C5_Witness ==
  /\ pc = "exited"
  /\ Len(result) = 1
  /\ result[1].success = FALSE
  /\ result[1].error = "WebDriverException"
  /\ FinalObject = result[1]

ExpectedNames == <<"First Name", "Last Name", "Email", "Password", "ZIP Code", "Birthday">>

\* C7: on a Direct or Modal layout every fill is attempted in the fixed order
\* whatever the earlier fills did, a fill fails exactly when its element is
\* missing or its interaction failed, and the run's result is success.
C7_FillsIndependent ==
  Recognized =>
    /\ Len(fills) = step - 1
    /\ Len(fills) <= 6
    /\ \A i \in 1..Len(fills) : fills[i].name = ExpectedNames[i]
    /\ \A i \in 1..Len(fills) :
         i <= 5 => (fills[i].ok => fills[i].locators[1] \in page)
    /\ faults = 0 =>
         \A i \in 1..Len(fills) :
           i <= 5 => (fills[i].ok <=> fills[i].locators[1] \in page)
    /\ pc \in Returned =>
         /\ Len(fills) = 6
         /\ Len(result) = 1
         /\ result[1].success
         /\ "error" \notin DOMAIN result[1]

\* a Direct run on a page missing only the email field: exactly the email
\* fill failed, the other four and the birthday went through
C7_Witness ==
  /\ form_type = "DIRECT"
  /\ pc = "exited"
  /\ page = (FieldSelectors \ {CSS_EMAIL_DIRECT}) \cup SubmitSelectors
  /\ Len(fills) = 6
  /\ {i \in 1..6 : ~fills[i].ok} = {3}
  /\ result[1].success

\* ------------------------------------------------------------------------
\* Properties of generate_random_user_data (specification GenSpec)
\* ------------------------------------------------------------------------
DigitValue(c) == CHOOSE v \in 0..9 : DigitChars[v + 1] = c

IsDigits(s) == \A i \in 1..Len(s) : \E v \in 0..9 : DigitChars[v + 1] = s[i]

RECURSIVE ParseInt(_)
ParseInt(s) == IF Len(s) = 0 THEN 0
               ELSE 10 * ParseInt(SubSeq(s, 1, Len(s) - 1)) + DigitValue(s[Len(s)])

GeneratedParts == split(user_data.val["birthday"], "/")

BornMonth == ParseInt(GeneratedParts[1])
BornDay == ParseInt(GeneratedParts[2])
BornYear == ParseInt(GeneratedParts[3])

\* full years between the generated birthday and the current date
AgeToday ==
  today.year - BornYear
    - (IF BornMonth > today.month \/ (BornMonth = today.month /\ BornDay > today.day)
       THEN 1 ELSE 0)

\* C9: the generated person's age on the current date is between 18 and 65
\* inclusive, and the day of the birthday is never greater than 28.
C9_AgeBetween18And65 ==
  pc = "generated" => (AgeToday >= 18 /\ AgeToday <= 65 /\ BornDay <= 28)

\* C10: the generated birthday splits on "/" into exactly three parts, a
\* two-digit month in 1..12, a two-digit day in 1..28 and a year that lies 18
\* to 65 years before the current year, so the birthday filler's unpacking
\* succeeds on it.
C10_BirthdayForm ==
  pc = "generated" =>
    /\ Len(GeneratedParts) = 3
    /\ ~UnpackBirthdayFails(user_data.val["birthday"])
    /\ \A i \in 1..3 : IsDigits(GeneratedParts[i])
    /\ Len(GeneratedParts[1]) = 2
    /\ Len(GeneratedParts[2]) = 2
    /\ Len(GeneratedParts[3]) = 4
    /\ BornMonth >= 1 /\ BornMonth <= 12
    /\ BornDay >= 1 /\ BornDay <= 28
    /\ today.year - BornYear >= 18
    /\ today.year - BornYear <= 65
    /\ BornMonth = rand.month /\ BornDay = rand.day

\* a birthday generated from one-digit draws, padded to 01/01
C10_Witness ==
  /\ pc = "generated"
  /\ rand.month = 1
  /\ rand.day = 1
  /\ rand.age = 65
  /\ SubSeq(user_data.val["birthday"], 1, 6) = <<"0", "1", "/", "0", "1", "/">>

\* ------------------------------------------------------------------------
\* Interrupt during the review wait, and the layout's selector set
\* ------------------------------------------------------------------------
\* C11: in a non-headless run, after an interrupt delivered during the review
\* wait, the browser session is closed by the time the process has exited.
C11_InterruptClosesSession ==
  (~headless /\ interrupted /\ pc = "exited") => driver = "closed"

LayoutSelectors(ft) ==
  IF ft = "DIRECT" THEN DirectSelectors \cup BirthdaySelectors
  ELSE IF ft = "MODAL" THEN ModalSelectors \cup BirthdaySelectors
  ELSE {}

LayoutBy(ft) == IF ft = "DIRECT" THEN "css" ELSE "xpath"

OneLayoutItsSelectors ==
  /\ detections <= 1
  /\ form_type # "none" => (detections = 1 /\ page # NoPage)
  /\ fills # <<>> => Recognized
  /\ \A i \in 1..Len(fills) :
       /\ \A j \in 1..Len(fills[i].locators) :
            fills[i].locators[j] \in LayoutSelectors(form_type)
       /\ i <= 5 =>
            /\ fills[i].by = LayoutBy(form_type)
            /\ fills[i].locators[1] \notin BirthdaySelectors
       /\ i = 6 => \A j \in 1..Len(fills[i].locators) :
                     fills[i].locators[j] \in BirthdaySelectors
  /\ form_type = "DIRECT" =>
       \A i \in 1..Len(fills) : \A j \in 1..Len(fills[i].locators) :
         fills[i].locators[j] \notin ModalSelectors
  /\ form_type = "MODAL" =>
       \A i \in 1..Len(fills) : \A j \in 1..Len(fills[i].locators) :
         fills[i].locators[j] \notin DirectSelectors

\* C12: one layout per run. Detection is called once, after navigation, its
\* result never changes afterwards, and every fill of the run, the birthday
\* selections included, addresses only selectors of the chosen layout: a
\* Direct run uses no Modal selector and a Modal run no Direct selector.
C12_OneLayoutPerRun ==
  /\ []OneLayoutItsSelectors
  /\ [][/\ form_type # "none" => form_type' = form_type
        /\ detections' # detections => (pc = "detect" /\ page # NoPage)]_vars

\* a finished Modal run whose six fills all succeeded, on a page that also
\* carries the other four Direct fields
C12_Witness ==
  /\ form_type = "MODAL"
  /\ pc = "exited"
  /\ Len(fills) = 6
  /\ \A i \in 1..6 : fills[i].ok
  /\ (DirectSelectors \ {CSS_FIRST_NAME_DIRECT}) \subseteq page

====
